---- MODULE Spec2Model ----
(***************************************************************************)
(* A model of the panicless containers: ChillVec (src/src/vec.rs),         *)
(* NumberVec and StrVec (src/src/str_vec.rs) and CursorVec                 *)
(* (src/src/cursor_vec.rs).                                                *)
(*                                                                         *)
(* Integers.  usize is a machine word of usizeBits bits; the arithmetic of *)
(* the release build wraps (% 2^usizeBits).  The ChillVec machine (Spec)   *)
(* runs on a word of WordBits bits so that the size computations of        *)
(* vec.rs reach the word's end; the other machines run on a word of        *)
(* UsizeBits bits.  u8 and u16 keep their widths; u32 and u64 are scaled   *)
(* to 24 and 30 bits because TLC's integers are 32 bits wide.              *)
(*                                                                         *)
(* Memory.  A ChillVec's allocation is the sequence `data`, one cell per   *)
(* element slot that the allocation really holds (its size in bytes        *)
(* divided by size_of::<T>()).  A cell never written holds Uninit.  A read *)
(* of an Uninit cell or outside the allocation yields any value; a write   *)
(* outside the allocation either crashes the process or corrupts the heap: *)
(* the vector is then marked `ub`, and since nothing is defined about a    *)
(* process with a corrupt heap, the machines take no step from there.      *)
(*                                                                         *)
(* Every operation yields the SET of its possible outcomes, each a record  *)
(* [st, v]: st = "ok" with the new value v, st = "abort" when              *)
(* handle_alloc_error terminated the process, st = "crash" when an         *)
(* out-of-bounds access did.                                               *)
(***************************************************************************)
EXTENDS Integers, Sequences, FiniteSets, TLC

VARIABLES
    usizeBits,  \* width of usize on the platform
    status,     \* "running", "aborted" (handle_alloc_error) or "crashed"
    op,         \* the last operation that ran
    vec,        \* the ChillVec<T> under test
    pushes,     \* values pushed since new(), while only push was called
    pure,       \* TRUE while only push was called since new()
    wroteInside, \* the last operation wrote only below the capacity in force
    nums,       \* the NumberVec under test
    numHist,    \* every value pushed to nums, in order
    strs,       \* the StrVec under test
    strHist,    \* every string pushed to strs, in order
    iter,       \* StrVecIter.index of the live iterator over strs, or NoIter
    yielded,    \* what the live iterator's next() calls returned, in order
    cur         \* the CursorVec<T> under test

vars == <<usizeBits, status, op, vec, pushes, pure, wroteInside,
          nums, numHist, strs, strHist, iter, yielded, cur>>

----------------------------------------------------------------------------
(* Bounds *)

\* width of usize in the ChillVec machine
WordBits == 5
\* element positions below this one take any value of Values; later ones take 1
MaxDistinct == 2
\* longest slice handed to extend_from_slice
MaxSlice == 2
\* pushes to the NumberVec machine
MaxNumLen == 4
\* pushes to the StrVec machine
MaxStrs == 4
\* pushes to the CursorVec machine
MaxCurLen == 4
\* cap of the cursor's index (prev can increment it without end)
MaxIndex == 6
\* calls of next() on one iterator (index would grow without end)
MaxNext == 6

\* width of usize in the NumberVec, StrVec and CursorVec machines (scaled 64)
UsizeBits == 30

Values == {1, 2}
\* size_of::<T>() of the element types tried: u8 and u16
ElemSizes == {1, 2}

\* the content of a cell never written; not a value of any element type
Uninit == 0 - 1
\* Option::None
None == 0 - 2

----------------------------------------------------------------------------
(* Machine words *)

UsizeMax == 2^usizeBits - 1
IsizeMax == 2^(usizeBits - 1) - 1
Wrap(x) == x % (2^usizeBits)

Min(a, b) == IF a < b THEN a ELSE b

----------------------------------------------------------------------------
(* Outcomes *)

Ok(v) == [st |-> "ok", v |-> v]
Dead(s, v) == [st |-> s, v |-> v]

----------------------------------------------------------------------------
(* ChillVec: src/src/vec.rs *)

Block(k) == [i \in 1..k |-> Uninit]

\* vec.rs:8-25.  The layout's size is n * size_of::<T>(), a wrapping product.
\* The outcomes are the allocated block, or "abort".
alloc_or_abort(n, size) ==
    LET bytes == Wrap(n * size) IN
    IF bytes > IsizeMax
    THEN {Dead("abort", <<>>)}
    ELSE {Dead("abort", <<>>), Ok(Block(bytes \div size))}

\* realloc_or_abort handing back a fresh block instead of the grown one
realloc_or_abort_fresh(data, previous_size, new_size, size) ==
    IF Wrap(previous_size * size) > IsizeMax
    THEN {Dead("abort", <<>>)}
    ELSE {Dead("abort", <<>>), Ok(Block(Wrap(new_size * size) \div size))}

\* vec.rs:28-55.  Only the OLD layout's size is compared with isize::MAX.
realloc_or_abort(data, previous_size, new_size, size) ==
    LET old == Wrap(previous_size * size)
        k == Wrap(new_size * size) \div size
    IN  IF old > IsizeMax
        THEN {Dead("abort", <<>>)}
        ELSE {Dead("abort", <<>>),
              Ok([i \in 1..k |-> IF i <= Len(data) THEN data[i] ELSE Uninit])}

\* vec.rs:104-111
ChillVec_new(size) ==
    [data |-> <<>>, length |-> 0, capacity |-> 0, size |-> size, ub |-> FALSE]

\* vec.rs:121-134
ChillVec_with_capacity(cap, size) ==
    IF cap = 0
    THEN {Ok(ChillVec_new(size))}
    ELSE { IF b.st = "ok"
           THEN Ok([data |-> b.v, length |-> 0, capacity |-> cap, size |-> size,
                    ub |-> FALSE])
           ELSE Dead("abort", ChillVec_new(size))
           : b \in alloc_or_abort(cap, size) }

\* vec.rs:137-139
ChillVec_capacity(v) == v.capacity

\* slice::len through Deref, vec.rs:258-260
ChillVec_len(v) == v.length

\* vec.rs:150-170 without the early return of vec.rs:151-153
ChillVec_reserve_always(v, new_capacity) ==
    LET blocks == IF v.capacity = 0
                  THEN alloc_or_abort(new_capacity, v.size)
                  ELSE realloc_or_abort(v.data, v.capacity, new_capacity, v.size)
    IN  { IF b.st = "ok"
          THEN Ok([v EXCEPT !.data = b.v, !.capacity = new_capacity])
          ELSE Dead("abort", v)
          : b \in blocks }

\* vec.rs:150-170
ChillVec_reserve(v, new_capacity) ==
    IF new_capacity <= v.capacity
    THEN {Ok(v)}
    ELSE LET blocks == IF v.capacity = 0
                       THEN alloc_or_abort(new_capacity, v.size)
                       ELSE realloc_or_abort(v.data, v.capacity, new_capacity, v.size)
         IN  { IF b.st = "ok"
               THEN Ok([v EXCEPT !.data = b.v, !.capacity = new_capacity])
               ELSE Dead("abort", v)
               : b \in blocks }

\* ptr::write(data.add(i), item): inside the allocation the cell is set;
\* outside it the write crashes the process or corrupts the heap.
PtrWrite(v, i, item) ==
    IF i < Len(v.data)
    THEN {Ok([v EXCEPT !.data[i + 1] = item])}
    ELSE {Dead("crash", v), Ok([v EXCEPT !.ub = TRUE])}

\* the reserve step of push, vec.rs:184-187
PushReserve(v) ==
    IF v.length = v.capacity
    THEN ChillVec_reserve(v, Wrap(v.capacity + v.capacity \div 2 + 1))
    ELSE {Ok(v)}

\* vec.rs:183-193
ChillVec_push(v, item) ==
    UNION { IF r.st # "ok" THEN {r}
            ELSE { IF w.st # "ok" THEN w
                   ELSE Ok([w.v EXCEPT !.length = Wrap(w.v.length + 1)])
                   : w \in PtrWrite(r.v, r.v.length, item) }
            : r \in PushReserve(v) }

\* shrink_to_fit shrinking the allocation and forgetting the new capacity
ChillVec_shrink_to_fit_stale(v) ==
    IF v.length > 0 /\ v.capacity > v.length
    THEN LET k == Wrap(v.size * v.length) \div v.size IN
         {Dead("abort", v), Ok([v EXCEPT !.data = SubSeq(v.data, 1, Min(k, Len(v.data)))])}
    ELSE {Ok(v)}

\* vec.rs:196-213.  realloc is called directly, with no size check.
ChillVec_shrink_to_fit(v) ==
    IF v.length > 0 /\ v.capacity > v.length
    THEN LET k == Wrap(v.size * v.length) \div v.size IN
         {Dead("abort", v),
          Ok([v EXCEPT !.data = [i \in 1..k |-> IF i <= Len(v.data)
                                                 THEN v.data[i] ELSE Uninit],
                       !.capacity = v.length])}
    ELSE {Ok(v)}

\* the reserve step of extend_from_slice, vec.rs:219-222
ExtendReserve(v, items) ==
    LET new_len == Wrap(v.length + Len(items)) IN
    IF new_len > ChillVec_capacity(v)
    THEN ChillVec_reserve(v, Wrap(new_len + 1))
    ELSE {Ok(v)}

\* ptr::copy_nonoverlapping(items, data.add(length), items.len()), vec.rs:224-230
CopyIn(v, items) ==
    LET inside == \A j \in 1..Len(items) : v.length + j <= Len(v.data)
        w == [v EXCEPT !.data = [i \in 1..Len(v.data) |->
                 IF i > v.length /\ i <= v.length + Len(items)
                 THEN items[i - v.length] ELSE v.data[i]]]
    IN  IF inside THEN {Ok(w)} ELSE {Dead("crash", v), Ok([w EXCEPT !.ub = TRUE])}

\* vec.rs:218-233
ChillVec_extend_from_slice(v, items) ==
    UNION { IF r.st # "ok" THEN {r}
            ELSE { IF w.st # "ok" THEN w
                   ELSE Ok([w.v EXCEPT !.length = Wrap(v.length + Len(items))])
                   : w \in CopyIn(r.v, items) }
            : r \in ExtendReserve(v, items) }

\* the values a read of element i can yield
ReadCell(v, i) ==
    IF i < Len(v.data) /\ v.data[i + 1] # Uninit
    THEN {v.data[i + 1]}
    ELSE Values

\* slice::get through Deref (vec.rs:258-260): bounds-checked by length
ChillVec_get(v, i) ==
    IF i < v.length THEN ReadCell(v, i) ELSE {None}

\* get_unchecked through Deref: no bounds check
ChillVec_get_unchecked(v, i) == ReadCell(v, i)

\* vec.rs:76-93.  copy_nonoverlapping reads self.length elements of self.data.
ChillVec_clone(v) ==
    IF v.length = 0
    THEN {Ok(ChillVec_new(v.size))}
    ELSE UNION { IF b.st # "ok"
                 THEN {Dead("abort", v)}
                 ELSE {Ok([data |-> [i \in 1..Len(b.v) |->
                                      IF i <= v.length /\ i <= Len(v.data)
                                      THEN v.data[i] ELSE Uninit],
                           length |-> v.length, capacity |-> v.length,
                           size |-> v.size,
                           ub |-> (v.length > Len(b.v))])}
                      \cup (IF v.length > Len(v.data) \/ v.length > Len(b.v)
                            THEN {Dead("crash", v)} ELSE {})
                 : b \in alloc_or_abort(v.length, v.size) }

----------------------------------------------------------------------------
(* The containers a machine that does not use them holds *)

NumInit0 == [tag |-> "U8", v |-> ChillVec_new(1)]
StrInit0 == [data |-> ChillVec_new(1), indices |-> NumInit0]
CurInit0 == [index |-> 0, vec |-> ChillVec_new(8)]

----------------------------------------------------------------------------
(* NumberVec: src/src/str_vec.rs *)

\* u8::max_value(), u16::max_value(); u32 and u64 scaled to 24 and 30 bits
U8Max == 2^8 - 1
U16Max == 2^16 - 1
U32Max == 2^24 - 1
U64Max == 2^UsizeBits - 1

\* size_of of the element type of each variant, str_vec.rs:16-21
SizeOfTag(tag) ==
    IF tag = "U8" THEN 1 ELSE IF tag = "U16" THEN 2 ELSE IF tag = "U32" THEN 4 ELSE 8

\* the largest value of the element type of each variant
MaxOfTag(tag) ==
    IF tag = "U8" THEN U8Max
    ELSE IF tag = "U16" THEN U16Max
    ELSE IF tag = "U32" THEN U32Max
    ELSE U64Max

\* str_vec.rs:55-62
NumberVec_max_value(nv) == MaxOfTag(nv.tag)

\* `item as uN`: the low bits of item
AsTag(item, tag) == item % (MaxOfTag(tag) + 1)

\* str_vec.rs:64-71
NumberVec_push_impl(nv, item) ==
    { [st |-> o.st, v |-> [nv EXCEPT !.v = o.v]]
      : o \in ChillVec_push(nv.v, AsTag(item, nv.tag)) }

\* str_vec.rs:73-80
NumberVec_capacity(nv) == ChillVec_capacity(nv.v)

\* str_vec.rs:82-89
NumberVec_len(nv) == ChillVec_len(nv.v)

\* str_vec.rs:30-42 without the u16 arm
WiderTag_no_u16(item) ==
    IF item <= U32Max THEN "U32" ELSE "U64"

\* the variant push resizes to: the first of U16, U32, U64 that holds item,
\* str_vec.rs:30-42
WiderTag(item) ==
    IF item <= U16Max THEN "U16" ELSE IF item <= U32Max THEN "U32" ELSE "U64"

\* the else branch of push, str_vec.rs:28-43: new_contents is a fresh vector
\* of the old capacity, the item is pushed to it, and it replaces *self
NumberVec_resize(nv, item) ==
    LET tag == WiderTag(item) IN
    UNION { IF c.st # "ok" THEN {Dead(c.st, nv)}
            ELSE { [st |-> o.st, v |-> [tag |-> tag, v |-> o.v]]
                   : o \in ChillVec_push(c.v, AsTag(item, tag)) }
            : c \in ChillVec_with_capacity(NumberVec_capacity(nv), SizeOfTag(tag)) }

\* str_vec.rs:24-44
NumberVec_push(nv, item) ==
    IF item <= NumberVec_max_value(nv)
    THEN NumberVec_push_impl(nv, item)
    ELSE NumberVec_resize(nv, item)

\* str_vec.rs:46-53: the stored value widened to usize, or None
NumberVec_get(nv, index) == ChillVec_get(nv.v, index)

\* NumberVec::U8(Vec::with_capacity(cap)), str_vec.rs:124 and 133
NumberVec_U8(cap) ==
    { [st |-> c.st, v |-> [tag |-> "U8", v |-> c.v]]
      : c \in ChillVec_with_capacity(cap, 1) }

----------------------------------------------------------------------------
(* StrVec: src/src/str_vec.rs *)

\* Option<&str>: no element for None, one for Some
StrNone == <<>>
StrSome(bytes) == <<bytes>>

\* str_vec.rs:132-140 (new, str_vec.rs:123-130, is with_capacity(64, 8))
StrVec_with_capacity(bytes_cap, indices_cap) ==
    UNION { IF n.st # "ok" THEN {Dead(n.st, StrInit0)}
            ELSE UNION { IF i.st # "ok" THEN {Dead(i.st, StrInit0)}
                         ELSE { IF d.st # "ok" THEN Dead(d.st, StrInit0)
                                ELSE Ok([data |-> d.v, indices |-> i.v])
                                : d \in ChillVec_with_capacity(bytes_cap, 1) }
                         : i \in NumberVec_push(n.v, 0) }
            : n \in NumberVec_U8(indices_cap) }

\* str_vec.rs:123-130
StrVec_new == StrVec_with_capacity(64, 8)

\* str_vec.rs:166-168
StrVec_len(sv) == Wrap(NumberVec_len(sv.indices) - 1)

\* data.get(begin..end): the bytes of the range, None when it is not inside
SliceGet(v, begin, end) ==
    IF begin > end \/ end > ChillVec_len(v)
    THEN StrNone
    ELSE StrSome(SubSeq(v.data, begin + 1, end))

\* str_vec.rs:146-152
StrVec_get(sv, index) ==
    { IF begin = None \/ end = None THEN StrNone ELSE SliceGet(sv.data, begin, end)
      : begin \in NumberVec_get(sv.indices, index),
        end \in NumberVec_get(sv.indices, Wrap(index + 1)) }

\* str_vec.rs:154-157, without the push of the offset
StrVec_push_data_only(sv, item) ==
    { [st |-> d.st, v |-> [data |-> d.v, indices |-> sv.indices]]
      : d \in ChillVec_extend_from_slice(sv.data, item) }

\* str_vec.rs:154-157
StrVec_push(sv, item) ==
    UNION { IF i.st # "ok" THEN {Dead(i.st, sv)}
            ELSE { [st |-> d.st, v |-> [data |-> d.v, indices |-> i.v]]
                   : d \in ChillVec_extend_from_slice(sv.data, item) }
            : i \in NumberVec_push(sv.indices, Wrap(ChillVec_len(sv.data) + Len(item))) }

\* no StrVecIter borrows the StrVec
NoIter == 0 - 1

\* str_vec.rs:159-164: StrVecIter { strvec: self, index: 0 }
StrVec_iter == 0

\* str_vec.rs:110-114: ExactSizeIterator::len of StrVecIter
StrVecIter_len(sv, index) == StrVec_len(sv)

\* str_vec.rs:97-108: the item returned and the iterator's index afterwards
StrVecIter_next(sv, index) ==
    { [out |-> o, index |-> Wrap(index + 1)]
      : o \in IF index < StrVecIter_len(sv, index)
               THEN StrVec_get(sv, index)
               ELSE {StrNone} }

----------------------------------------------------------------------------
(* CursorVec: src/src/cursor_vec.rs *)

\* cursor_vec.rs:14-18
CursorVec_new(first) ==
    { [st |-> o.st, v |-> [index |-> 0, vec |-> o.v]]
      : o \in ChillVec_push(ChillVec_new(8), first) }

\* cursor_vec.rs:74-76
CursorVec_len(c) == ChillVec_len(c.vec)

\* cursor_vec.rs:69-71
CursorVec_tell(c) == c.index

\* cursor_vec.rs:21-23: the values the unchecked read can yield
CursorVec_get(c) == ChillVec_get_unchecked(c.vec, c.index)

\* next wrapping one position too late
CursorVec_next_late(c) ==
    LET i == Wrap(c.index + 1) IN
    [c EXCEPT !.index = IF i > ChillVec_len(c.vec) THEN 0 ELSE i]

\* cursor_vec.rs:31-36
CursorVec_next(c) ==
    LET i == Wrap(c.index + 1) IN
    [c EXCEPT !.index = IF i = ChillVec_len(c.vec) THEN 0 ELSE i]

\* cursor_vec.rs:39-46
CursorVec_prev(c) ==
    IF c.index = 0
    THEN [c EXCEPT !.index = Wrap(ChillVec_len(c.vec) - 1)]
    ELSE [c EXCEPT !.index = Wrap(c.index + 1)]

\* cursor_vec.rs:54-56
CursorVec_push(c, item) ==
    { [st |-> o.st, v |-> [c EXCEPT !.vec = o.v]] : o \in ChillVec_push(c.vec, item) }

----------------------------------------------------------------------------
(* The ChillVec machine: one ChillVec<T>, any public operation at each step *)

\* the values the element at position p is drawn from
ValuesAt(p) == IF p < MaxDistinct THEN Values ELSE {1}

\* the slices handed to extend_from_slice when the vector holds len elements
Slices(len) ==
    UNION { { s \in [1..k -> Values] : \A j \in 1..k : s[j] \in ValuesAt(len + j - 1) }
            : k \in 0..MaxSlice }

\* the capacities asked of with_capacity and reserve: small ones, and the
\* ones around isize::MAX and usize::MAX
CapChoices ==
    {0, 1, 3, IsizeMax, IsizeMax + 1, IsizeMax + 2, IsizeMax + 7, UsizeMax}

\* the state of the other machines, which a machine leaves alone
NumIdle == <<nums, numHist>>
StrIdle == <<strs, strHist, iter, yielded>>
CurIdle == <<cur>>
VecIdle == <<vec, pushes, pure, wroteInside>>

\* One operation of the ChillVec machine: `outs` are its outcomes, and unless
\* it aborted before writing it wrote n elements from position `at` on.
VecStep(name, outs, at, n, keepsPure, item) ==
    /\ status = "running"
    /\ ~vec.ub
    /\ \E o \in outs :
        /\ status' = IF o.st = "ok" THEN "running"
                     ELSE IF o.st = "abort" THEN "aborted" ELSE "crashed"
        \* after handle_alloc_error the process holds no vector any more; a crash
        \* leaves the vector as it was at the faulting access
        /\ vec' = IF o.st = "abort" THEN ChillVec_new(vec.size) ELSE o.v
        /\ wroteInside' = (o.st = "abort" \/ n = 0 \/ at + n <= o.v.capacity)
        /\ pure' = (o.st = "ok" /\ keepsPure)
        /\ pushes' = IF o.st = "ok" /\ keepsPure /\ name = "push"
                     THEN Append(pushes, item)
                     ELSE <<>>
    /\ op' = name
    /\ UNCHANGED <<usizeBits, NumIdle, StrIdle, CurIdle>>

VecNew ==
    VecStep("new", {Ok(ChillVec_new(vec.size))}, 0, 0, TRUE, 0)

VecWithCapacity ==
    \E cap \in CapChoices :
        VecStep("with_capacity", ChillVec_with_capacity(cap, vec.size), 0, 0, FALSE, 0)

VecReserve ==
    \E n \in CapChoices :
        VecStep("reserve", ChillVec_reserve(vec, n), 0, 0, FALSE, 0)

VecPush ==
    \E item \in ValuesAt(vec.length) :
        VecStep("push", ChillVec_push(vec, item), vec.length, 1, pure, item)

VecExtendFromSlice ==
    \E items \in Slices(vec.length) :
        VecStep("extend_from_slice", ChillVec_extend_from_slice(vec, items),
                vec.length, Len(items), FALSE, 0)

VecShrinkToFit ==
    VecStep("shrink_to_fit", ChillVec_shrink_to_fit(vec), 0, 0, FALSE, 0)

VecClone ==
    VecStep("clone", ChillVec_clone(vec), 0, 0, FALSE, 0)

Init ==
    /\ usizeBits = WordBits
    /\ status = "running"
    /\ op = "new"
    /\ \E size \in ElemSizes : vec = ChillVec_new(size)
    /\ pushes = <<>>
    /\ pure = TRUE
    /\ wroteInside = TRUE
    /\ nums = NumInit0 /\ numHist = <<>>
    /\ strs = StrInit0 /\ strHist = <<>> /\ iter = NoIter /\ yielded = <<>>
    /\ cur = CurInit0

Next ==
    \/ VecNew
    \/ VecWithCapacity
    \/ VecReserve
    \/ VecPush
    \/ VecExtendFromSlice
    \/ VecShrinkToFit
    \/ VecClone

Spec == Init /\ [][Next]_vars

----------------------------------------------------------------------------
(* The NumberVec machine: one NumberVec, pushed to *)

\* the values pushed: around the ends of u8, u16 and u32
NumInputs == {0, 10, U8Max, U8Max + 1, 300, U16Max, 70000, U32Max, U32Max + 1}

\* the status after an outcome
StatusOf(o) ==
    IF o.st = "ok" THEN "running" ELSE IF o.st = "abort" THEN "aborted" ELSE "crashed"

InitNum ==
    /\ usizeBits = UsizeBits
    /\ status = "running"
    /\ op = "new"
    /\ vec = ChillVec_new(1) /\ pushes = <<>> /\ pure = FALSE /\ wroteInside = TRUE
    /\ \E cap \in {0, 8} : \E o \in NumberVec_U8(cap) : o.st = "ok" /\ nums = o.v
    /\ numHist = <<>>
    /\ strs = StrInit0 /\ strHist = <<>> /\ iter = NoIter /\ yielded = <<>>
    /\ cur = CurInit0

NumPush ==
    /\ status = "running"
    /\ Len(numHist) < MaxNumLen
    /\ \E item \in NumInputs : \E o \in NumberVec_push(nums, item) :
        /\ status' = StatusOf(o)
        /\ nums' = IF o.st = "ok" THEN o.v ELSE nums
        /\ numHist' = IF o.st = "ok" THEN Append(numHist, item) ELSE numHist
    /\ op' = "push"
    /\ UNCHANGED <<usizeBits, VecIdle, StrIdle, CurIdle>>

NextNum == NumPush

SpecNum == InitNum /\ [][NextNum]_vars

----------------------------------------------------------------------------
(* The StrVec machine: one StrVec, pushed to *)

\* a string of u8::max_value() - 1 bytes
LongStr == [i \in 1..(U8Max - 1) |-> 120]

\* the strings pushed: "", "a", "ab", "abc" and the long one
Strs == {<<>>, <<97>>, <<97, 98>>, <<97, 98, 99>>, LongStr}

InitStr ==
    /\ usizeBits = UsizeBits
    /\ status = "running"
    /\ op = "new"
    /\ vec = ChillVec_new(1) /\ pushes = <<>> /\ pure = FALSE /\ wroteInside = TRUE
    /\ nums = NumInit0 /\ numHist = <<>>
    /\ \E o \in StrVec_new \cup StrVec_with_capacity(0, 0) \cup StrVec_with_capacity(2, 1) :
          o.st = "ok" /\ strs = o.v
    /\ strHist = <<>> /\ iter = NoIter /\ yielded = <<>>
    /\ cur = CurInit0

StrPush ==
    /\ status = "running"
    /\ Len(strHist) < MaxStrs
    /\ \E item \in Strs : \E o \in StrVec_push(strs, item) :
        /\ status' = StatusOf(o)
        /\ strs' = IF o.st = "ok" THEN o.v ELSE strs
        /\ strHist' = IF o.st = "ok" THEN Append(strHist, item) ELSE strHist
    /\ iter' = NoIter /\ yielded' = <<>>
    /\ op' = "push"
    /\ UNCHANGED <<usizeBits, VecIdle, NumIdle, CurIdle>>

\* strvec.iter(): a fresh iterator takes the place of the one before it
StrIter ==
    /\ status = "running"
    /\ iter' = StrVec_iter /\ yielded' = <<>>
    /\ op' = "iter"
    /\ UNCHANGED <<usizeBits, status, VecIdle, NumIdle, strs, strHist, CurIdle>>

\* one call of next() on the live iterator
StrIterNext ==
    /\ status = "running"
    /\ iter # NoIter
    /\ Len(yielded) < MaxNext
    /\ \E r \in StrVecIter_next(strs, iter) :
        /\ iter' = r.index
        /\ yielded' = Append(yielded, r.out)
    /\ op' = "next"
    /\ UNCHANGED <<usizeBits, status, VecIdle, NumIdle, strs, strHist, CurIdle>>

NextStr == StrPush \/ StrIter \/ StrIterNext

SpecStr == InitStr /\ [][NextStr]_vars

----------------------------------------------------------------------------
(* The CursorVec machine: one CursorVec<T>; push, next and prev *)

InitCur ==
    /\ usizeBits = UsizeBits
    /\ status = "running"
    /\ op = "new"
    /\ vec = ChillVec_new(1) /\ pushes = <<>> /\ pure = FALSE /\ wroteInside = TRUE
    /\ nums = NumInit0 /\ numHist = <<>>
    /\ strs = StrInit0 /\ strHist = <<>> /\ iter = NoIter /\ yielded = <<>>
    /\ \E first \in Values : \E o \in CursorVec_new(first) : o.st = "ok" /\ cur = o.v

CurPush ==
    /\ status = "running"
    /\ CursorVec_len(cur) < MaxCurLen
    /\ \E item \in Values : \E o \in CursorVec_push(cur, item) :
        /\ status' = StatusOf(o)
        /\ cur' = IF o.st = "ok" THEN o.v ELSE cur
    /\ op' = "push"
    /\ UNCHANGED <<usizeBits, VecIdle, NumIdle, StrIdle>>

CurNext ==
    /\ status = "running"
    /\ cur.index < MaxIndex
    /\ cur' = CursorVec_next(cur)
    /\ op' = "next"
    /\ UNCHANGED <<usizeBits, status, VecIdle, NumIdle, StrIdle>>

CurPrev ==
    /\ status = "running"
    /\ cur.index < MaxIndex
    /\ cur' = CursorVec_prev(cur)
    /\ op' = "prev"
    /\ UNCHANGED <<usizeBits, status, VecIdle, NumIdle, StrIdle>>

NextCur ==
    \/ CurPush
    \/ CurNext
    \/ CurPrev

SpecCur == InitCur /\ [][NextCur]_vars

----------------------------------------------------------------------------
(* Claims about ChillVec, checked under Spec *)

\* C4: after any sequence of push calls from new(), across the growth
\* reallocations, len() is the number of pushes, get(i) returns exactly the
\* i-th pushed value for i < len(), and get(i) is None for i >= len().
C4_PushGet ==
    (pure /\ status = "running") =>
        /\ ChillVec_len(vec) = Len(pushes)
        /\ \A i \in 0..(Len(pushes) - 1) : ChillVec_get(vec, i) = {pushes[i + 1]}
        /\ \A i \in Len(pushes)..(Len(pushes) + 2) : ChillVec_get(vec, i) = {None}

\* five pushes from new(), through the capacities 1, 2, 4 and 7
C4_Witness ==
    /\ pure /\ status = "running"
    /\ Len(pushes) = 5
    /\ pushes[1] # pushes[2]
    /\ vec.capacity = 7

\* C5: capacity * size_of::<T>(), computed without wrap-around, never exceeds
\* isize::MAX, because every allocation and growth checks the new size.
C5_SizeChecked ==
    status = "running" => vec.capacity * vec.size <= IsizeMax

\* C7: length <= capacity in every reachable state, and every write of push
\* and extend_from_slice lands below the capacity in force.
C7_LengthWithinCapacity ==
    /\ vec.length <= vec.capacity
    /\ wroteInside

\* the elements a ChillVec holds, as get returns them
Elements(v) == [i \in 0..(v.length - 1) |-> ChillVec_get(v, i)]

\* C8: shrink_to_fit always leaves capacity == length, also when length == 0
\* and capacity > 0, and leaves length and the elements unchanged.
C8_ShrinkTight ==
    /\ []((op = "shrink_to_fit" /\ status = "running") => vec.capacity = vec.length)
    /\ [][(op' = "shrink_to_fit" /\ status' = "running") =>
            /\ vec'.length = vec.length
            /\ Elements(vec') = Elements(vec)]_vars

\* C8, amended: shrink_to_fit leaves capacity == length when length > 0 and
\* changes nothing when length == 0 (the capacity stays); in every case it
\* leaves length and the elements unchanged.
C8_ShrinkTightNonEmpty ==
    /\ []((op = "shrink_to_fit" /\ status = "running" /\ vec.length > 0)
             => vec.capacity = vec.length)
    /\ [][(op' = "shrink_to_fit" /\ status' = "running") =>
            /\ vec'.length = vec.length
            /\ Elements(vec') = Elements(vec)
            /\ (vec.length = 0 => vec' = vec)]_vars

\* shrink_to_fit has run on a vector that holds two different elements
C8_Witness ==
    /\ op = "shrink_to_fit" /\ status = "running"
    /\ vec.length = 2 /\ vec.capacity = 2
    /\ ChillVec_get(vec, 0) # ChillVec_get(vec, 1)

\* C13: in every reachable state, push, reserve(n) for any n (n <= capacity
\* and n == 0 included) and extend_from_slice leave the capacity of a
\* ChillVec at least what it was before the call.
C13_CapacityMonotone ==
    (status = "running" /\ ~vec.ub) =>
        /\ \A n \in CapChoices : \A o \in ChillVec_reserve(vec, n) :
              o.st = "ok" => ChillVec_capacity(o.v) >= ChillVec_capacity(vec)
        /\ \A item \in Values : \A o \in ChillVec_push(vec, item) :
              o.st = "ok" => ChillVec_capacity(o.v) >= ChillVec_capacity(vec)
        /\ \A items \in Slices(vec.length) : \A o \in ChillVec_extend_from_slice(vec, items) :
              o.st = "ok" => ChillVec_capacity(o.v) >= ChillVec_capacity(vec)

\* a reserve grew the capacity past the length: reserve(0), reserve(1) and a
\* push that needs no growth are possible next
C13_Witness ==
    /\ op = "reserve" /\ status = "running" /\ ~vec.ub
    /\ vec.capacity = 3 /\ vec.length = 1
    /\ \E n \in CapChoices : n > 0 /\ n < vec.capacity

\* C15: push on a ChillVec with length == capacity grows the capacity to
\* exactly capacity + capacity/2 + 1, which is at least 1 and greater than
\* the old capacity; push with length < capacity leaves the capacity as it is.
C15_PushGrowth ==
    (status = "running" /\ ~vec.ub) =>
        \A item \in Values : \A o \in ChillVec_push(vec, item) :
            o.st = "ok" =>
                IF vec.length = vec.capacity
                THEN /\ o.v.capacity = vec.capacity + vec.capacity \div 2 + 1
                     /\ o.v.capacity >= 1
                     /\ o.v.capacity > vec.capacity
                ELSE o.v.capacity = vec.capacity

\* C16: extend_from_slice(items) on a ChillVec in any reachable state leaves
\* the previous elements followed by items in order, with length == old
\* length + items.len(), reserving at most once (to new length + 1) and not
\* at all when old length + items.len() <= capacity.
C16_ExtendFromSlice ==
    (status = "running" /\ ~vec.ub) =>
        \A items \in Slices(vec.length) : \A o \in ChillVec_extend_from_slice(vec, items) :
            o.st = "ok" =>
                /\ o.v.length = vec.length + Len(items)
                /\ \A i \in 0..(vec.length - 1) : ChillVec_get(o.v, i) = ChillVec_get(vec, i)
                /\ \A j \in 1..Len(items) : ChillVec_get(o.v, vec.length + j - 1) = {items[j]}
                /\ IF vec.length + Len(items) <= vec.capacity
                   THEN o.v.capacity = vec.capacity
                   ELSE o.v.capacity = vec.length + Len(items) + 1

\* C17: reserve(n) on a ChillVec in any reachable state leaves capacity >= n,
\* changes nothing at all when n <= capacity, and in every case leaves the
\* length and the stored elements unchanged.
C17_Reserve ==
    (status = "running" /\ ~vec.ub) =>
        \A n \in CapChoices : \A o \in ChillVec_reserve(vec, n) :
            o.st = "ok" =>
                /\ o.v.capacity >= n
                /\ n <= vec.capacity => o.v = vec
                /\ o.v.length = vec.length
                /\ Elements(o.v) = Elements(vec)

----------------------------------------------------------------------------
(* Claims about NumberVec, checked under SpecNum *)

\* C1: after pushes v_0..v_n to a NumberVec, len() == n+1 and get(i) returns
\* exactly v_i for every i <= n, whatever width upgrades happened.
C1_PushGet ==
    status = "running" =>
        /\ NumberVec_len(nums) = Len(numHist)
        /\ \A i \in 0..(Len(numHist) - 1) : NumberVec_get(nums, i) = {numHist[i + 1]}

\* the largest value pushed so far, 0 when nothing was pushed
MaxPushed ==
    IF numHist = <<>> THEN 0
    ELSE CHOOSE m \in {numHist[i] : i \in 1..Len(numHist)} :
             \A i \in 1..Len(numHist) : numHist[i] <= m

\* C11: after any sequence of pushes the active variant of a NumberVec is
\* the narrowest of u8, u16, u32, u64 that holds the largest value pushed so
\* far (u8 when nothing was pushed), and no push makes the variant narrower.
C11_NarrowestWidth ==
    /\ [](nums.tag = IF MaxPushed <= U8Max THEN "U8"
                     ELSE IF MaxPushed <= U16Max THEN "U16"
                     ELSE IF MaxPushed <= U32Max THEN "U32"
                     ELSE "U64")
    /\ [][SizeOfTag(nums'.tag) >= SizeOfTag(nums.tag)]_vars

\* 10, 300, 70000 and a value past u32 were pushed and the variant is U64
C11_Witness ==
    /\ numHist = <<10, 300, 70000, U32Max + 1>>
    /\ nums.tag = "U64"
    /\ status = "running"

----------------------------------------------------------------------------
(* Claims about StrVec, checked under SpecStr *)

\* C2: after pushes s_0..s_n to a StrVec, also when the total byte length
\* passes 255, len() == n+1, get(i) == s_i for i <= n and get(i) is None for
\* i >= len().
C2_PushGet ==
    status = "running" =>
        /\ StrVec_len(strs) = Len(strHist)
        /\ \A i \in 0..(Len(strHist) - 1) :
              StrVec_get(strs, i) = {StrSome(strHist[i + 1])}
        /\ \A i \in Len(strHist)..(Len(strHist) + 2) : StrVec_get(strs, i) = {StrNone}

\* C6: the offset index has one more entry than strings were pushed, starts
\* with 0, is non-decreasing, ends with the byte buffer's length, and string
\* i occupies the bytes [offsets[i], offsets[i+1]) of the buffer.
C6_Offsets ==
    status = "running" =>
        LET n == Len(strHist)
            off(i) == NumberVec_get(strs.indices, i)
        IN  /\ NumberVec_len(strs.indices) = n + 1
            /\ off(0) = {0}
            /\ off(n) = {ChillVec_len(strs.data)}
            /\ \A i \in 0..(n - 1) : \A b \in off(i) : \A e \in off(i + 1) :
                  /\ b # None /\ e # None
                  /\ b <= e
                  /\ e <= ChillVec_len(strs.data)
                  /\ SubSeq(strs.data.data, b + 1, e) = strHist[i + 1]

\* C12: over a StrVec holding s_0..s_n, the calls of next() on a fresh
\* iter() return s_0, ..., s_n in insertion order and None on every later
\* call, and so do the calls on every later iter() of the same StrVec.
C12_IterYields ==
    (status = "running" /\ iter # NoIter) =>
        /\ iter = Len(yielded)
        /\ yielded = [k \in 1..Len(yielded) |->
                         IF k <= Len(strHist) THEN StrSome(strHist[k]) ELSE StrNone]

\* C14: pushing the empty string onto a StrVec in any reachable state
\* increases len() by exactly 1, leaves the byte buffer's length and contents
\* as they were, makes the two last offsets equal, and get() of the new
\* string is the empty string while get() of every earlier index is as before.
C14_PushEmpty ==
    [][(op' = "push" /\ status' = "running" /\ strHist' = Append(strHist, <<>>)) =>
          LET n == StrVec_len(strs)
              last == NumberVec_len(strs'.indices) - 1
          IN  /\ StrVec_len(strs') = n + 1
              /\ ChillVec_len(strs'.data) = ChillVec_len(strs.data)
              /\ Elements(strs'.data) = Elements(strs.data)
              /\ last >= 1
              /\ NumberVec_get(strs'.indices, last) = NumberVec_get(strs'.indices, last - 1)
              /\ Cardinality(NumberVec_get(strs'.indices, last)) = 1
              /\ StrVec_get(strs', n) = {StrSome(<<>>)}
              /\ \A i \in 0..(n - 1) : StrVec_get(strs', i) = StrVec_get(strs, i)
      ]_vars

\* the empty string was pushed after a non-empty one
C14_Witness ==
    /\ op = "push" /\ status = "running"
    /\ strHist = << <<97>>, <<>> >>
    /\ StrVec_len(strs) = 2
    /\ StrVec_get(strs, 1) = {StrSome(<<>>)}

\* C19: at every point of an iteration over a StrVec, ExactSizeIterator::len
\* of the iterator is the number of items that next() will still yield: the
\* StrVec's len() less one per item yielded, and 0 once next() returned None.
C19_ExactLen ==
    (status = "running" /\ iter # NoIter) =>
        StrVecIter_len(strs, iter) =
            IF \E k \in 1..Len(yielded) : yielded[k] = StrNone
            THEN 0
            ELSE StrVec_len(strs) - Cardinality({k \in 1..Len(yielded) : yielded[k] # StrNone})

----------------------------------------------------------------------------
(* Claims about CursorVec, checked under SpecCur *)

\* C3: in every state reachable from new(first) by push, next and prev the
\* backing vector is not empty and 0 <= index < len().
C3_IndexInBounds ==
    /\ CursorVec_len(cur) > 0
    /\ 0 <= cur.index
    /\ cur.index < CursorVec_len(cur)

\* C9: prev() is the inverse of next(): next() then prev() restores the
\* index, and prev() moves the index to (index - 1) mod length.
C9_PrevInvertsNext ==
    (CursorVec_len(cur) > 0 /\ cur.index < CursorVec_len(cur)) =>
        /\ CursorVec_prev(CursorVec_next(cur)).index = cur.index
        /\ CursorVec_prev(cur).index
              = (cur.index + CursorVec_len(cur) - 1) % CursorVec_len(cur)

\* C10: with 0 <= index < length, next() sets index to (index + 1) mod length
\* and touches nothing else; with one element it stays on that element, and
\* with two it moves to the second and then wraps back to the first.
C10_NextWraps ==
    (CursorVec_len(cur) > 0 /\ cur.index < CursorVec_len(cur)) =>
        /\ CursorVec_next(cur).index = (cur.index + 1) % CursorVec_len(cur)
        /\ CursorVec_next(cur).vec = cur.vec
        /\ (CursorVec_len(cur) = 1 => CursorVec_get(CursorVec_next(cur)) = CursorVec_get(cur))
        /\ (CursorVec_len(cur) = 2 /\ cur.index = 0 =>
               /\ CursorVec_get(CursorVec_next(cur)) = ChillVec_get(cur.vec, 1)
               /\ CursorVec_get(CursorVec_next(CursorVec_next(cur))) = CursorVec_get(cur))

\* x, then push(y), next() onto y, next() again: the cursor is back on x
C10_Witness ==
    /\ op = "next" /\ status = "running"
    /\ CursorVec_len(cur) = 2
    /\ cur.index = 0
    /\ ChillVec_get(cur.vec, 0) # ChillVec_get(cur.vec, 1)
    /\ CursorVec_get(cur) = ChillVec_get(cur.vec, 0)

\* C18: push on a CursorVec leaves the cursor index and the element returned
\* by get() unchanged, and increases len() by exactly 1 with the new element
\* placed last.
C18_PushKeepsCursor ==
    status = "running" =>
        \A item \in Values : \A o \in CursorVec_push(cur, item) :
            o.st = "ok" =>
                /\ CursorVec_tell(o.v) = CursorVec_tell(cur)
                /\ CursorVec_get(o.v) = CursorVec_get(cur)
                /\ CursorVec_len(o.v) = CursorVec_len(cur) + 1
                /\ ChillVec_get(o.v.vec, CursorVec_len(cur)) = {item}

====
